---- MODULE Spec2Model ----
(***************************************************************************)
(* Model of the election application: the vote page (page guard and        *)
(* election-window guard), the voting interface (just-in-time check,       *)
(* submission, constraint-violation fallback, local vote cache), and the   *)
(* dashboard, posts listing and results view.                              *)
(*                                                                         *)
(* A voting session is one mounted vote page in one browser tab.  A        *)
(* handler runs atomically from one await to the next, so every action is  *)
(* either a user event (up to the first await) or the answer of one        *)
(* backend call together with the code that runs until the next await.     *)
(***************************************************************************)
EXTENDS Integers, FiniteSets, Sequences, TLC

VARIABLES
    votes,          \* the votes table: a set of rows
    now,            \* wall-clock time
    localStorage,   \* the "userVotes" item of the browser's local storage
    sess,           \* the voting sessions (VotePage + VotingInterface state)
    dash,           \* the Dashboard component
    plist,          \* the PostsList component
    rview,          \* the ResultsView component
    activeElections \* the rows of elections with is_active = true

vars == <<votes, now, localStorage, sess, dash, plist, rview, activeElections>>

voteVars == <<votes, now, localStorage, sess>>
viewVars == <<dash, plist, rview, activeElections>>

----------------------------------------------------------------------------
(* Bounds *)

MaxTime == 1            \* the clock runs 0..MaxTime
MaxFlows == 2           \* submit attempts per voting session

\* the voting sessions: one vote page each, in its own browser tab
Sessions == {"tab1", "tab2"}

None == "null"

----------------------------------------------------------------------------
(* The data store *)

Users == {"u1", "u2"}

\* elections rows (id, end_time)
ElectionsTable == { [id |-> "e1", end_time |-> 0] }

\* posts rows joined with their election; "p3" has no parent election and
\* "p4" is not a row of the table
PostsTable ==
    { [id |-> "p1", elections |-> "e1"],
      [id |-> "p2", elections |-> "e1"],
      [id |-> "p3", elections |-> None],
      [id |-> "p5", elections |-> "e1"] }

\* "p5" is a post of the election that has no candidate
PostIds == {"p1", "p2", "p3", "p4", "p5"}

\* candidates rows (id, post_id)
CandidatesTable ==
    { [id |-> "c1", post_id |-> "p1"],
      [id |-> "c2", post_id |-> "p1"],
      [id |-> "c3", post_id |-> "p2"] }

CandidateIds == { c.id : c \in CandidatesTable }

ElectionOf(eid) == CHOOSE e \in ElectionsTable : e.id = eid

\* supabase.from("votes").select("id").eq("user_id", u).eq("post_id", p)
VoteRows(vs, u, p) == { v \in vs : v.user_id = u /\ v.post_id = p }

\* .maybeSingle(): no row gives data null, one row gives the row, more than
\* one row gives an error; a transport failure gives an error as well
MaybeSingle(rows, netOk) ==
    IF ~netOk THEN "error"
    ELSE IF rows = {} THEN "none"
    ELSE IF Cardinality(rows) = 1 THEN "row"
    ELSE "error"

\* .from("posts").select("..., elections (...)").eq("id", p).single()
PostSingle(p, netOk) ==
    IF ~netOk \/ ~(\E r \in PostsTable : r.id = p)
    THEN [error |-> TRUE, data |-> [id |-> None, elections |-> None]]
    ELSE [error |-> FALSE, data |-> CHOOSE r \in PostsTable : r.id = p]

\* supabaseOperations.getCandidates([p]): the candidates of the post
GetCandidates(p) == { c.id : c \in { x \in CandidatesTable : x.post_id = p } }

\* the unique constraint on votes (user_id, post_id)
SubmitVoteNoConstraint(vs, row) ==
    [ok |-> TRUE, code |-> "",
     votes |-> vs \cup {[id |-> Cardinality(vs) + 1, user_id |-> row.user_id,
                         post_id |-> row.post_id,
                         candidate_id |-> row.candidate_id]}]

\* supabaseOperations.submitVote(row): inserts the row, or fails with the
\* unique_violation code when a vote of (user_id, post_id) exists
SubmitVote(vs, row) ==
    IF VoteRows(vs, row.user_id, row.post_id) # {}
    THEN [ok |-> FALSE, code |-> "23505", votes |-> vs]
    ELSE [ok |-> TRUE, code |-> "",
          votes |-> vs \cup {[id |-> Cardinality(vs) + 1,
                              user_id |-> row.user_id,
                              post_id |-> row.post_id,
                              candidate_id |-> row.candidate_id]}]

----------------------------------------------------------------------------
(* The local vote cache: localStorage item "userVotes" *)

VotePosts == {"p1", "p2"}

CacheObjects == [VotePosts -> CandidateIds \cup {None}]

EmptyObject == [p \in VotePosts |-> None]

\* the stored item: absent (getItem gives null), a JSON object, or a text
\* that JSON.parse rejects or that does not parse to an object
CacheItems ==
    { [kind |-> "absent", obj |-> EmptyObject],
      [kind |-> "malformed", obj |-> EmptyObject] }
    \cup { [kind |-> "object", obj |-> o] : o \in CacheObjects }

\* JSON.parse(localStorage.getItem("userVotes") || "{}") throws, or the
\* assignment to a property of its result does
CacheThrows(item) == item.kind = "malformed"

\* JSON.parse(localStorage.getItem("userVotes") || "{}")
CacheParse(item) == item.obj

\* userVotes[post.id] = { candidate_id }; localStorage.setItem(...)
CacheStoreMutant(item, p, c) ==
    [kind |-> "object", obj |-> [EmptyObject EXCEPT ![p] = c]]

CacheStore(item, p, c) ==
    [kind |-> "object", obj |-> [CacheParse(item) EXCEPT ![p] = c]]

----------------------------------------------------------------------------
(* VotePage *)

UnmountedSession ==
    [postId |-> None, pagePc |-> "unmounted",
     user |-> None, post |-> None, loading |-> TRUE,
     nav |-> "none", toast |-> "none",
     selectedCandidateId |-> None, isLoading |-> FALSE, error |-> "",
     showConfirmation |-> FALSE, voteSuccessful |-> FALSE,
     hPc |-> "idle", closureVoteSuccessful |-> FALSE,
     \* history of the page session and of the current submit flow
     trace |-> {}, closedAtEntry |-> FALSE,
     flows |-> 0, jitResult |-> "pending", jitDbHadVote |-> FALSE,
     submitResult |-> "none", submitDbHadVote |-> FALSE]

\* now > endTime
ElectionEndedMutant(t, endTime) == t < endTime

ElectionEnded(t, endTime) == t > endTime

\* the page is mounted and initializePage runs to its first await
InitializePageMutant(sr, u, p, t) ==
    [sr EXCEPT !.postId = p, !.user = u, !.pagePc = "voteCheck",
               !.trace = {"findVote"}]

InitializePage(sr, u, p, t) ==
    LET m == [sr EXCEPT !.postId = p,
                  !.closedAtEntry =
                      \E r \in PostsTable :
                          /\ r.id = p
                          /\ r.elections # None
                          /\ t > ElectionOf(r.elections).end_time]
    IN  IF u = None
        THEN [m EXCEPT !.pagePc = "done", !.nav = "/"]
        ELSE [m EXCEPT !.user = u, !.pagePc = "voteCheck",
                       !.trace = {"findVote"}]

\* catch + finally of initializePage
LoadCatchMutant(sr) ==
    [sr EXCEPT !.toast = "Error Loading Page", !.post = sr.postId,
               !.loading = FALSE, !.pagePc = "done"]

LoadCatch(sr) ==
    [sr EXCEPT !.toast = "Error Loading Page", !.nav = "/dashboard",
               !.loading = FALSE, !.pagePc = "done"]

\* the page guard, after the answer of the votes query
AfterVoteCheckMutant(sr, res) ==
    IF res = "error" THEN LoadCatch(sr)
    ELSE [sr EXCEPT !.pagePc = "postFetch",
                    !.trace = @ \cup {"findVote:" \o res, "getPost"}]

AfterVoteCheck(sr, res) ==
    IF res = "error"
    THEN LoadCatch([sr EXCEPT !.trace = @ \cup {"findVote:error"}])
    ELSE IF res = "row"
    THEN [sr EXCEPT !.toast = "Already Voted", !.nav = "/results",
                    !.loading = FALSE, !.pagePc = "done",
                    !.trace = @ \cup {"findVote:row"}]
    ELSE [sr EXCEPT !.pagePc = "postFetch",
                    !.trace = @ \cup {"findVote:none", "getPost"}]

\* the election-window guard, after the answer of the posts query
AfterPostFetchMutant(sr, res, t) ==
    IF res.error
    THEN LoadCatch([sr EXCEPT !.trace = @ \cup {"getPost:error"}])
    ELSE IF res.data.elections = None
    THEN LoadCatch([sr EXCEPT !.trace = @ \cup {"getPost:noElection"}])
    ELSE [sr EXCEPT !.pagePc = "candFetch",
                    !.trace = @ \cup {"getPost:ok", "getCandidates"}]

AfterPostFetch(sr, res, t) ==
    IF res.error
    THEN LoadCatch([sr EXCEPT !.trace = @ \cup {"getPost:error"}])
    ELSE IF res.data.elections = None
    THEN LoadCatch([sr EXCEPT !.trace = @ \cup {"getPost:noElection"}])
    ELSE IF ElectionEnded(t, ElectionOf(res.data.elections).end_time)
    THEN [sr EXCEPT !.toast = "Election Ended", !.nav = "/dashboard",
                    !.loading = FALSE, !.pagePc = "done",
                    !.trace = @ \cup {"getPost:ok"}]
    ELSE [sr EXCEPT !.pagePc = "candFetch",
                    !.trace = @ \cup {"getPost:ok", "getCandidates"}]

\* after the answer of getCandidates: setPost, finally setLoading(false)
AfterCandidates(sr, throws) ==
    IF throws
    THEN LoadCatch([sr EXCEPT !.trace = @ \cup {"getCandidates:error"}])
    ELSE [sr EXCEPT !.post = sr.postId, !.loading = FALSE, !.pagePc = "done",
                    !.trace = @ \cup {"getCandidates:ok"}]

\* VotePage renders <VotingInterface/>
InterfaceRendered(sr) ==
    /\ sr.pagePc # "unmounted"
    /\ ~sr.loading
    /\ sr.user # None
    /\ sr.post # None

----------------------------------------------------------------------------
(* VotingInterface *)

\* if (voteSuccessful) return the success screen
SuccessScreenMutant(sr) == FALSE

SuccessScreen(sr) == sr.voteSuccessful

\* post.candidates.find(c => c.id === selectedCandidateId)
SelectedCandidateData(sr) ==
    IF sr.post # None /\ sr.selectedCandidateId \in GetCandidates(sr.post)
    THEN sr.selectedCandidateId ELSE None

\* if (showConfirmation && selectedCandidateData) return the confirmation
ConfirmationScreen(sr) ==
    /\ InterfaceRendered(sr)
    /\ ~SuccessScreen(sr)
    /\ sr.showConfirmation
    /\ SelectedCandidateData(sr) # None

\* the main selection screen
SelectionScreen(sr) ==
    /\ InterfaceRendered(sr)
    /\ ~SuccessScreen(sr)
    /\ ~ConfirmationScreen(sr)

\* finally { if (!voteSuccessful) setIsLoading(false) }: voteSuccessful is
\* the value the handler closed over when it was created
FinallyMutant(sr) == sr

Finally(sr) ==
    IF ~sr.closureVoteSuccessful THEN [sr EXCEPT !.isLoading = FALSE] ELSE sr

\* handleVoteSubmit up to the await of the just-in-time query
HandleVoteSubmitMutant(sr) ==
    IF sr.selectedCandidateId = None THEN sr
    ELSE [sr EXCEPT !.isLoading = TRUE, !.error = "", !.hPc = "submit",
                    !.closureVoteSuccessful = sr.voteSuccessful,
                    !.flows = @ + 1,
                    !.jitResult = "pending", !.jitDbHadVote = FALSE,
                    !.submitResult = "none", !.submitDbHadVote = FALSE]

HandleVoteSubmit(sr) ==
    IF sr.selectedCandidateId = None THEN sr
    ELSE [sr EXCEPT !.isLoading = TRUE, !.error = "", !.hPc = "jit",
                    !.closureVoteSuccessful = sr.voteSuccessful,
                    !.flows = @ + 1,
                    !.jitResult = "pending", !.jitDbHadVote = FALSE,
                    !.submitResult = "none", !.submitDbHadVote = FALSE]

\* after the answer of the just-in-time query: only data is read, the
\* error of the response is not
AfterJitCheckMutant(sr, res) ==
    IF res = "row"
    THEN Finally([sr EXCEPT !.error = "already voted",
                            !.voteSuccessful = TRUE, !.hPc = "idle",
                            !.jitResult = res])
    ELSE IF res = "error"
    THEN Finally([sr EXCEPT !.error = "error", !.hPc = "idle",
                            !.jitResult = res])
    ELSE [sr EXCEPT !.hPc = "submit", !.jitResult = res]

AfterJitCheck(sr, res) ==
    IF res = "row"
    THEN Finally([sr EXCEPT !.error = "already voted",
                            !.voteSuccessful = TRUE, !.hPc = "idle",
                            !.jitResult = res])
    ELSE [sr EXCEPT !.hPc = "submit", !.jitResult = res]

\* catch (err) of handleVoteSubmit
CatchSubmitMutant(sr, code) == [sr EXCEPT !.error = "error"]

CatchSubmit(sr, code) ==
    IF code = "23505"
    THEN [sr EXCEPT !.error = "already recorded", !.voteSuccessful = TRUE]
    ELSE [sr EXCEPT !.error = "error"]

\* after submitVote returned: the local cache is updated, then
\* setVoteSuccessful(true)
AfterSubmitOk(sr, item) ==
    IF CacheThrows(item)
    THEN Finally([CatchSubmit(sr, "") EXCEPT !.hPc = "idle"])
    ELSE Finally([sr EXCEPT !.voteSuccessful = TRUE, !.hPc = "idle"])

\* after submitVote threw
AfterSubmitThrowMutant(sr, code) ==
    IF code = "23505" THEN Finally([CatchSubmit(sr, code) EXCEPT !.hPc = "idle"])
    ELSE [CatchSubmit(sr, code) EXCEPT !.hPc = "jit", !.jitResult = "pending"]

AfterSubmitThrow(sr, code) ==
    Finally([CatchSubmit(sr, code) EXCEPT !.hPc = "idle"])

----------------------------------------------------------------------------
(* Actions of the voting sessions *)

Upd(s, sr) == sess' = [sess EXCEPT ![s] = sr]

\* the users are interchangeable, so the first tab's user is taken to be
\* "u1"; the other tab belongs to the same or to the other user
TabUsers(s) == IF s = "tab1" THEN {"u1"} ELSE Users

\* the user opens /vote/<p> in tab s; authService.getCurrentUser() gives the
\* logged-in user or null
Navigate(s) ==
    /\ sess[s].pagePc = "unmounted"
    /\ \E u \in TabUsers(s) \cup {None}, p \in PostIds :
           Upd(s, InitializePage(sess[s], u, p, now))
    /\ UNCHANGED <<votes, now, localStorage, viewVars>>

VoteCheckAnswer(s) ==
    /\ sess[s].pagePc = "voteCheck"
    /\ \E netOk \in BOOLEAN :
           Upd(s, AfterVoteCheck(sess[s],
                    MaybeSingle(VoteRows(votes, sess[s].user, sess[s].postId),
                                netOk)))
    /\ UNCHANGED <<votes, now, localStorage, viewVars>>

PostFetchAnswer(s) ==
    /\ sess[s].pagePc = "postFetch"
    /\ \E netOk \in BOOLEAN :
           Upd(s, AfterPostFetch(sess[s], PostSingle(sess[s].postId, netOk),
                                 now))
    /\ UNCHANGED <<votes, now, localStorage, viewVars>>

CandidatesAnswer(s) ==
    /\ sess[s].pagePc = "candFetch"
    /\ \E throws \in BOOLEAN : Upd(s, AfterCandidates(sess[s], throws))
    /\ UNCHANGED <<votes, now, localStorage, viewVars>>

\* onClick of a candidate card
SelectCandidate(s) ==
    /\ SelectionScreen(sess[s])
    /\ \E c \in GetCandidates(sess[s].post) :
           /\ c # sess[s].selectedCandidateId
           /\ Upd(s, [sess[s] EXCEPT !.selectedCandidateId = c])
    /\ UNCHANGED <<votes, now, localStorage, viewVars>>

\* "Continue to Confirmation", disabled while no candidate is selected
ContinueToConfirmation(s) ==
    /\ SelectionScreen(sess[s])
    /\ sess[s].selectedCandidateId # None
    /\ Upd(s, [sess[s] EXCEPT !.showConfirmation = TRUE])
    /\ UNCHANGED <<votes, now, localStorage, viewVars>>

\* "Go Back & Change", disabled while isLoading
GoBack(s) ==
    /\ ConfirmationScreen(sess[s])
    /\ ~sess[s].isLoading
    /\ Upd(s, [sess[s] EXCEPT !.showConfirmation = FALSE])
    /\ UNCHANGED <<votes, now, localStorage, viewVars>>

\* "Submit Final Vote", disabled while isLoading
ClickSubmitMutant(s) ==
    /\ ConfirmationScreen(sess[s])
    /\ sess[s].flows < MaxFlows
    /\ Upd(s, HandleVoteSubmit(sess[s]))
    /\ UNCHANGED <<votes, now, localStorage, viewVars>>

ClickSubmit(s) ==
    /\ ConfirmationScreen(sess[s])
    /\ ~sess[s].isLoading
    /\ sess[s].flows < MaxFlows
    /\ Upd(s, HandleVoteSubmit(sess[s]))
    /\ UNCHANGED <<votes, now, localStorage, viewVars>>

JitAnswer(s) ==
    /\ sess[s].hPc = "jit"
    /\ \E netOk \in BOOLEAN :
         LET rows == VoteRows(votes, sess[s].user, sess[s].post)
         IN  Upd(s, AfterJitCheck([sess[s] EXCEPT !.jitDbHadVote = rows # {}],
                                  MaybeSingle(rows, netOk)))
    /\ UNCHANGED <<votes, now, localStorage, viewVars>>

\* the answer of submitVote: a transport failure (the call does not reach
\* the data store), a rejection by the data store, or the inserted row
SubmitAnswer(s) ==
    /\ sess[s].hPc = "submit"
    /\ \E netOk \in BOOLEAN :
         LET sr  == sess[s]
             row == [post_id |-> sr.post,
                     candidate_id |-> sr.selectedCandidateId,
                     user_id |-> sr.user]
             r   == SubmitVote(votes, row)
             had == VoteRows(votes, sr.user, sr.post) # {}
         IN  IF ~netOk
             THEN /\ Upd(s, AfterSubmitThrow(
                            [sr EXCEPT !.submitResult = "failed"], "other"))
                  /\ UNCHANGED <<votes, localStorage>>
             ELSE IF ~r.ok
             THEN /\ Upd(s, AfterSubmitThrow(
                            [sr EXCEPT !.submitResult = r.code,
                                       !.submitDbHadVote = had], r.code))
                  /\ UNCHANGED <<votes, localStorage>>
             ELSE /\ Upd(s, AfterSubmitOk(
                            [sr EXCEPT !.submitResult = "ok",
                                       !.submitDbHadVote = had],
                            localStorage))
                  /\ votes' = r.votes
                  /\ localStorage' =
                        IF CacheThrows(localStorage) THEN localStorage
                        ELSE CacheStore(localStorage, sr.post,
                                        sr.selectedCandidateId)
    /\ UNCHANGED <<now, viewVars>>

Tick ==
    /\ now < MaxTime
    /\ now' = now + 1
    /\ UNCHANGED <<votes, localStorage, sess, viewVars>>

----------------------------------------------------------------------------
(* Dashboard *)

MaxFetches == 3         \* runs of the PostsList fetch effect

\* the users the identity provider may return on the dashboard
DashUsers ==
    { [id |-> "u1", role |-> "voter"], [id |-> "a1", role |-> "admin"] }

NoUser == [id |-> None, role |-> None]

UnmountedDashboard ==
    [pc |-> "unmounted", user |-> NoUser, election |-> None,
     loading |-> TRUE, nav |-> "none", readFailed |-> FALSE]

\* initializeDashboard up to the await of getElections
InitializeDashboardMutant(d, cu) ==
    IF cu = NoUser THEN [d EXCEPT !.pc = "done", !.nav = "/"]
    ELSE IF cu.role = "admin"
    THEN [d EXCEPT !.pc = "elections", !.user = cu, !.nav = "/admin"]
    ELSE [d EXCEPT !.pc = "elections", !.user = cu]

InitializeDashboard(d, cu) ==
    IF cu = NoUser THEN [d EXCEPT !.pc = "done", !.nav = "/"]
    ELSE IF cu.role = "admin" THEN [d EXCEPT !.pc = "done", !.nav = "/admin"]
    ELSE [d EXCEPT !.pc = "elections", !.user = cu]

\* after getElections: setElection, or catch (console.error), then
\* finally setLoading(false)
AfterGetElections(d, throws, active) ==
    IF throws
    THEN [d EXCEPT !.pc = "done", !.loading = FALSE, !.readFailed = TRUE]
    ELSE [d EXCEPT !.pc = "done", !.loading = FALSE,
                   !.election = IF active = {} THEN None
                                ELSE CHOOSE e \in active : TRUE]

\* Dashboard renders the page with <PostsList userId={user.id}/>
DashboardRendered(d) == ~d.loading /\ d.user # NoUser

\* what the dashboard shows
DashboardView(d) ==
    IF d.loading THEN "skeleton"
    ELSE IF d.user = NoUser THEN "nothing"
    ELSE IF d.election # None THEN "welcome+countdown+posts"
    ELSE "welcome+posts"

DashboardMount ==
    /\ dash.pc = "unmounted"
    /\ \E cu \in DashUsers \cup {NoUser} :
           dash' = InitializeDashboard(dash, cu)
    /\ UNCHANGED <<voteVars, plist, rview, activeElections>>

DashElectionsAnswer ==
    /\ dash.pc = "elections"
    /\ \E throws \in BOOLEAN :
           dash' = AfterGetElections(dash, throws, activeElections)
    /\ UNCHANGED <<voteVars, plist, rview, activeElections>>

----------------------------------------------------------------------------
(* PostsList *)

UnmountedPostsList ==
    [pc |-> "unmounted", userId |-> None, posts |-> {}, loading |-> TRUE,
     rerender |-> FALSE, fetches |-> 0, readFailed |-> FALSE]

\* posts of the election, each with its candidates and the user_voted flag
PostsWithStatusMutant(electionId, userVotes) ==
    { [id |-> r.id,
       candidates |-> { c.id : c \in { x \in CandidatesTable :
                                            x.post_id = r.id } },
       user_voted |-> r.id \in { v.post_id : v \in userVotes }]
      : r \in { x \in PostsTable :
                  /\ x.elections = electionId
                  /\ \E c \in CandidatesTable : c.post_id = x.id } }

PostsWithStatus(electionId, userVotes) ==
    { [id |-> r.id,
       candidates |-> { c.id : c \in { x \in CandidatesTable :
                                            x.post_id = r.id } },
       user_voted |-> r.id \in { v.post_id : v \in userVotes }]
      : r \in { x \in PostsTable : x.elections = electionId } }

\* the fetch effect up to the await of the elections query
FetchPostsAndUserVotes(pl) ==
    IF pl.userId = None
    THEN [pl EXCEPT !.pc = "settled", !.rerender = pl.loading,
                    !.loading = FALSE, !.fetches = @ + 1]
    ELSE [pl EXCEPT !.pc = "elections", !.rerender = FALSE,
                    !.fetches = @ + 1]

\* catch (console.error) and finally setLoading(false)
PostsListCatch(pl) ==
    [pl EXCEPT !.pc = "settled", !.rerender = pl.loading,
               !.loading = FALSE, !.readFailed = TRUE]

\* after the answer of the elections query
AfterListElections(pl, netOk, active) ==
    IF ~netOk THEN PostsListCatch(pl)
    ELSE IF active = {}
    THEN [pl EXCEPT !.pc = "settled", !.rerender = pl.loading,
                    !.loading = FALSE]
    ELSE [pl EXCEPT !.pc = "parallel"]

\* after Promise.all of the posts, candidates and votes reads: the join,
\* setPosts (a new array, so the component renders again), finally
AfterParallelReadsMutant(pl, okPosts, okCandidates, okVotes, active, vs) ==
    IF ~okPosts \/ ~okCandidates \/ ~okVotes THEN PostsListCatch(pl)
    ELSE [pl EXCEPT !.pc = "settled", !.rerender = TRUE, !.loading = FALSE,
                    !.posts = PostsWithStatus(CHOOSE e \in active : TRUE, vs)]

AfterParallelReads(pl, okPosts, okCandidates, okVotes, active, vs) ==
    IF ~okPosts \/ ~okCandidates \/ ~okVotes THEN PostsListCatch(pl)
    ELSE [pl EXCEPT !.pc = "settled", !.rerender = TRUE, !.loading = FALSE,
                    !.posts = PostsWithStatus(CHOOSE e \in active : TRUE,
                                  { v \in vs : v.user_id = pl.userId })]

\* what the list shows
PostsListView(pl) ==
    IF pl.loading THEN "skeleton"
    ELSE IF pl.posts = {} THEN "No Active Elections"
    ELSE "posts"

\* the link of a listed post
PostLink(post) == IF post.user_voted THEN "/results" ELSE "/vote"

PostsListMount ==
    /\ plist.pc = "unmounted"
    /\ DashboardRendered(dash)
    /\ plist' = FetchPostsAndUserVotes([plist EXCEPT !.userId = dash.user.id])
    /\ UNCHANGED <<voteVars, dash, rview, activeElections>>

PlElectionsAnswer ==
    /\ plist.pc = "elections"
    /\ \E netOk \in BOOLEAN :
           plist' = AfterListElections(plist, netOk, activeElections)
    /\ UNCHANGED <<voteVars, dash, rview, activeElections>>

PlParallelAnswer ==
    /\ plist.pc = "parallel"
    /\ \E okPosts \in BOOLEAN, okCandidates \in BOOLEAN, okVotes \in BOOLEAN :
           plist' = AfterParallelReads(plist, okPosts, okCandidates, okVotes,
                                       activeElections, votes)
    /\ UNCHANGED <<voteVars, dash, rview, activeElections>>

\* the component rendered again with a new supabase client, which is a
\* dependency of the effect: the effect runs again
PlEffectRerun ==
    /\ plist.pc = "settled"
    /\ plist.rerender
    /\ plist.fetches < MaxFetches
    /\ plist' = FetchPostsAndUserVotes(plist)
    /\ UNCHANGED <<voteVars, dash, rview, activeElections>>

----------------------------------------------------------------------------
(* ResultsView *)

NoResults == [candidates |-> {}, total_votes |-> -1]

UnmountedResultsView ==
    [pc |-> "unmounted", postId |-> None, post |-> None,
     results |-> NoResults, loading |-> TRUE, toast |-> "none",
     readFailed |-> FALSE]

\* supabaseOperations.getPostResults(p): the candidates of the post with
\* their vote counts and percentages (in hundredths of a percent)
GetPostResultsMutant(vs, p) ==
    LET total == Cardinality(vs)
        count(c) == Cardinality({ v \in vs : v.post_id = p
                                              /\ v.candidate_id = c })
    IN  [candidates |->
            { [id |-> c, vote_count |-> count(c),
               percentage |-> IF total = 0 THEN 0
                              ELSE (count(c) * 10000) \div total]
              : c \in GetCandidates(p) },
         total_votes |-> total]

GetPostResults(vs, p) ==
    LET total == Cardinality({ v \in vs : v.post_id = p })
        count(c) == Cardinality({ v \in vs : v.post_id = p
                                              /\ v.candidate_id = c })
    IN  [candidates |->
            { [id |-> c, vote_count |-> count(c),
               percentage |-> IF total = 0 THEN 0
                              ELSE (count(c) * 10000) \div total]
              : c \in GetCandidates(p) },
         total_votes |-> total]

\* catch (toast) and finally setLoading(false)
ResultsCatch(rv) ==
    [rv EXCEPT !.pc = "done", !.toast = "Error", !.loading = FALSE,
               !.readFailed = TRUE]

\* after getPosts(""): allPosts.find(id === postId), setPost
AfterGetPosts(rv, throws) ==
    IF throws THEN ResultsCatch(rv)
    ELSE [rv EXCEPT !.pc = "results",
             !.post = IF \E r \in PostsTable : r.id = rv.postId
                      THEN rv.postId ELSE None]

\* after getPostResults(postId): setResults, finally setLoading(false)
AfterGetPostResults(rv, throws, vs) ==
    IF throws THEN ResultsCatch(rv)
    ELSE [rv EXCEPT !.pc = "done", !.loading = FALSE,
                    !.results = GetPostResults(vs, rv.postId)]

\* what the results view shows
ResultsViewShown(rv) ==
    IF rv.loading THEN "skeleton"
    ELSE IF rv.post = None THEN "Post Not Found"
    ELSE IF rv.results.candidates # {} THEN "results"
    ELSE "No candidates or votes recorded"

ResultsMount ==
    /\ rview.pc = "unmounted"
    /\ \E p \in PostIds :
           rview' = [rview EXCEPT !.pc = "posts", !.postId = p]
    /\ UNCHANGED <<voteVars, dash, plist, activeElections>>

RvPostsAnswer ==
    /\ rview.pc = "posts"
    /\ \E throws \in BOOLEAN : rview' = AfterGetPosts(rview, throws)
    /\ UNCHANGED <<voteVars, dash, plist, activeElections>>

RvResultsAnswer ==
    /\ rview.pc = "results"
    /\ \E throws \in BOOLEAN :
           rview' = AfterGetPostResults(rview, throws, votes)
    /\ UNCHANGED <<voteVars, dash, plist, activeElections>>

----------------------------------------------------------------------------
(* Specification of the voting sessions *)

InitialCacheItems ==
    { [kind |-> "absent", obj |-> EmptyObject],
      [kind |-> "malformed", obj |-> EmptyObject],
      [kind |-> "object", obj |-> [EmptyObject EXCEPT !["p2"] = "c3"]] }

Init ==
    /\ votes = {}
    /\ now = 0
    /\ localStorage \in InitialCacheItems
    /\ sess = [s \in Sessions |-> UnmountedSession]
    /\ dash = UnmountedDashboard
    /\ plist = UnmountedPostsList
    /\ rview = UnmountedResultsView
    /\ activeElections = {"e1"}

Next ==
    \/ \E s \in Sessions : Navigate(s)
    \/ \E s \in Sessions : VoteCheckAnswer(s)
    \/ \E s \in Sessions : PostFetchAnswer(s)
    \/ \E s \in Sessions : CandidatesAnswer(s)
    \/ \E s \in Sessions : SelectCandidate(s)
    \/ \E s \in Sessions : ContinueToConfirmation(s)
    \/ \E s \in Sessions : GoBack(s)
    \/ \E s \in Sessions : ClickSubmit(s)
    \/ \E s \in Sessions : JitAnswer(s)
    \/ \E s \in Sessions : SubmitAnswer(s)
    \/ Tick

Spec == Init /\ [][Next]_vars

\* every backend call is eventually answered (with a result or an error)
Fairness ==
    \A s \in Sessions :
        /\ WF_vars(VoteCheckAnswer(s))
        /\ WF_vars(PostFetchAnswer(s))
        /\ WF_vars(CandidatesAnswer(s))
        /\ WF_vars(JitAnswer(s))
        /\ WF_vars(SubmitAnswer(s))

LiveSpec == Init /\ [][Next]_vars /\ Fairness

----------------------------------------------------------------------------
(* Session states named by the state machine of the guard *)

Checking(sr) == sr.pagePc \in {"voteCheck", "postFetch", "candFetch"}

Submitting(sr) == sr.isLoading /\ ~sr.voteSuccessful

LoadSettled(sr) ==
    /\ sr.pagePc = "done"
    /\ \/ sr.nav # "none" /\ sr.post = None
       \/ sr.nav = "none" /\ InterfaceRendered(sr)

SubmitSettled(sr) ==
    /\ sr.hPc = "idle"
    /\ \/ sr.voteSuccessful
       \/ sr.error = "error" /\ ~sr.isLoading


----------------------------------------------------------------------------
(* Specification of the dashboard, the posts listing and the results view, *)
(* over a data store that does not change while they load                  *)

VoteRow(i, u, p, c) ==
    [id |-> i, user_id |-> u, post_id |-> p, candidate_id |-> c]

InitialVotes ==
    { {},
      { VoteRow(1, "u1", "p1", "c1") },
      { VoteRow(1, "u2", "p1", "c2"), VoteRow(2, "u2", "p2", "c3") },
      { VoteRow(1, "u1", "p1", "c1"), VoteRow(2, "u2", "p1", "c1"),
        VoteRow(3, "u3", "p1", "c1"), VoteRow(4, "u4", "p1", "c2") } }

ViewInit ==
    /\ votes \in InitialVotes
    /\ now = 0
    /\ localStorage = [kind |-> "absent", obj |-> EmptyObject]
    /\ sess = [s \in Sessions |-> UnmountedSession]
    /\ dash = UnmountedDashboard
    /\ plist = UnmountedPostsList
    /\ rview = UnmountedResultsView
    /\ activeElections \in { {}, {"e1"} }

ViewNext ==
    \/ DashboardMount
    \/ DashElectionsAnswer
    \/ PostsListMount
    \/ PlElectionsAnswer
    \/ PlParallelAnswer
    \/ PlEffectRerun
    \/ ResultsMount
    \/ RvPostsAnswer
    \/ RvResultsAnswer

ViewSpec == ViewInit /\ [][ViewNext]_vars

----------------------------------------------------------------------------
(* Specification of the entry of the two pages: the load of the vote page  *)
(* in the tabs together with the dashboard and its posts list              *)

EntryNext ==
    \/ \E s \in Sessions : Navigate(s)
    \/ \E s \in Sessions : VoteCheckAnswer(s)
    \/ \E s \in Sessions : PostFetchAnswer(s)
    \/ \E s \in Sessions : CandidatesAnswer(s)
    \/ DashboardMount
    \/ DashElectionsAnswer
    \/ PostsListMount
    \/ PlElectionsAnswer
    \/ PlParallelAnswer
    \/ PlEffectRerun

EntrySpec == ViewInit /\ [][EntryNext]_vars

----------------------------------------------------------------------------
(* Properties *)

TypeOK ==
    /\ now \in 0..MaxTime
    /\ localStorage \in CacheItems
    /\ \A v \in votes : v.post_id \in VotePosts


AlreadyVoted(sr) == sr.pagePc = "done" /\ sr.toast = "Already Voted"

ElectionClosed(sr) == sr.pagePc = "done" /\ sr.toast = "Election Ended"

\* Success, or DuplicateDetected resolved to Success
Success(sr) == sr.voteSuccessful

Terminal(sr) == AlreadyVoted(sr) \/ ElectionClosed(sr) \/ Success(sr)

LoadErrors ==
    {"findVote:error", "getPost:error", "getPost:noElection",
     "getCandidates:error"}

----------------------------------------------------------------------------
\* C1: in every reachable state the votes table holds at most one row for
\* each (user_id, post_id) pair, whatever the interleaving of the sessions.
C1_OneVotePerUserPost ==
    \A u \in Users, p \in PostIds : Cardinality(VoteRows(votes, u, p)) <= 1

\* two sessions of one user submitted for one post
C1_Witness ==
    /\ sess["tab1"].submitResult = "ok"
    /\ sess["tab2"].submitResult = "23505"
    /\ sess["tab1"].user = sess["tab2"].user
    /\ sess["tab1"].post = sess["tab2"].post
    /\ Cardinality(votes) = 1

\* C2: a submitVote for (u, p) that reaches the data store when a vote of
\* (u, p) exists is rejected with code 23505, and the session that receives
\* the rejection ends in the success state, not in the Error state.
C2_SecondSubmitIsAlreadyVoted ==
    \A s \in Sessions :
        sess[s].submitDbHadVote =>
            /\ sess[s].submitResult = "23505"
            /\ sess[s].hPc = "idle"
            /\ sess[s].voteSuccessful
            /\ sess[s].error = "already recorded"

C2_Witness ==
    \E s \in Sessions :
        /\ sess[s].submitDbHadVote
        /\ sess[s].submitResult = "23505"
        /\ \E v \in votes : /\ v.user_id = sess[s].user
                             /\ v.post_id = sess[s].post
                             /\ v.candidate_id # sess[s].selectedCandidateId

\* C3: when the page-entry vote query returns a vote, the session never
\* renders the voting interface, issues no post or candidates read, and
\* navigates to the results view.
C3_PageEntryGuard ==
    \A s \in Sessions :
        "findVote:row" \in sess[s].trace =>
            /\ ~InterfaceRendered(sess[s])
            /\ sess[s].post = None
            /\ sess[s].trace \cap {"getPost", "getCandidates"} = {}
            /\ sess[s].pagePc = "done"
            /\ sess[s].nav = "/results"

C3_Witness ==
    \E s \in Sessions :
        /\ "findVote:row" \in sess[s].trace
        /\ sess[s].toast = "Already Voted"

\* C4 as stated: when the election has ended at the time of navigation, an
\* authenticated user whose reads all succeed is redirected to the dashboard
\* with the closed notice, whether or not a vote of the user exists.
C4_ClosedRegardlessOfVote ==
    \A s \in Sessions :
        ( /\ sess[s].pagePc = "done"
          /\ sess[s].closedAtEntry
          /\ sess[s].user # None
          /\ sess[s].trace \cap LoadErrors = {} ) =>
            /\ sess[s].nav = "/dashboard"
            /\ sess[s].toast = "Election Ended"

\* C4 amended: when the election has ended at the time of navigation, the
\* page-entry vote query found no vote and the post read succeeded, the
\* session is redirected to the dashboard with the closed notice and the
\* voting interface is not rendered.
C4_ClosedWhenNoVote ==
    \A s \in Sessions :
        (sess[s].closedAtEntry /\ "getPost:ok" \in sess[s].trace) =>
            /\ "findVote:none" \in sess[s].trace
            /\ sess[s].pagePc = "done"
            /\ sess[s].nav = "/dashboard"
            /\ sess[s].toast = "Election Ended"
            /\ ~InterfaceRendered(sess[s])

C4_Witness ==
    \E s \in Sessions :
        /\ sess[s].closedAtEntry
        /\ "getPost:ok" \in sess[s].trace
        /\ ElectionClosed(sess[s])

\* C5: when a vote of (user, post) is in the votes table at the time the
\* just-in-time query is answered, the session does not call submitVote and
\* ends in the success state.
C5_JitRaceNoSubmit ==
    \A s \in Sessions :
        (sess[s].jitResult # "pending" /\ sess[s].jitDbHadVote) =>
            /\ sess[s].hPc = "idle"
            /\ sess[s].submitResult = "none"
            /\ sess[s].voteSuccessful

\* C6: a submitVote call is in flight or answered only in a flow whose
\* just-in-time query was issued before it and has been answered.
C6_JitAnsweredBeforeSubmit ==
    \A s \in Sessions :
        (sess[s].hPc = "submit" \/ sess[s].submitResult # "none") =>
            sess[s].jitResult \in {"none", "error"}

C6_Witness ==
    \E s \in Sessions :
        sess[s].hPc = "submit" /\ sess[s].jitResult = "none"

\* C7: a session that has reached AlreadyVoted, ElectionClosed, Success or
\* DuplicateDetected takes no step that issues a submitVote call.
C7_TerminalNoSubmit ==
    [][ \A s \in Sessions :
            Terminal(sess[s]) =>
                /\ sess[s].hPc = "idle"
                /\ sess'[s].hPc # "submit" ]_vars

C7_Witness ==
    \E s \in Sessions :
        /\ Success(sess[s])
        /\ sess[s].submitResult = "ok"
        /\ sess[s].flows < MaxFlows

\* C8: when a step of the vote-page load fails, the session shows the error
\* notice, navigates to the dashboard and does not render the voting
\* interface.
C8_LoadFailureRedirects ==
    \A s \in Sessions :
        sess[s].trace \cap LoadErrors # {} =>
            /\ sess[s].pagePc = "done"
            /\ sess[s].toast = "Error Loading Page"
            /\ sess[s].nav = "/dashboard"
            /\ ~InterfaceRendered(sess[s])

C8_Witness ==
    /\ "getCandidates:error" \in sess["tab1"].trace
    /\ "getPost:noElection" \in sess["tab2"].trace

\* C9: when every backend call is eventually answered, every page load
\* leaves Checking for a navigation or the voting interface, and every
\* submit attempt leaves Submitting for Success or a displayed Error.
C9_LoadsAndSubmitsSettle ==
    \A s \in Sessions :
        /\ Checking(sess[s]) ~> LoadSettled(sess[s])
        /\ Submitting(sess[s]) ~> SubmitSettled(sess[s])

C9_Witness ==
    \E s \in Sessions :
        /\ SubmitSettled(sess[s])
        /\ sess[s].submitResult = "failed"
        /\ sess[s].flows = MaxFlows

\* C10: a failed read of the dashboard, the posts listing or the results
\* view is shown as a notice and is not presented as an empty result.
C10_FailedReadIsShown ==
    /\ (dash.readFailed /\ ~dash.loading) =>
            DashboardView(dash) # "welcome+posts"
    /\ (plist.readFailed /\ ~plist.loading) =>
            PostsListView(plist) # "No Active Elections"
    /\ (rview.readFailed /\ ~rview.loading) =>
            /\ rview.toast = "Error"
            /\ ResultsViewShown(rview) # "No candidates or votes recorded"

\* the end_time of the election of a post that has one
EndTimeOf(p) ==
    ElectionOf((CHOOSE r \in PostsTable : r.id = p).elections).end_time

\* C11 as stated: a session whose submission ended in Error issues no
\* further call; a new attempt needs a new page session.
C11_NoSubmitAfterError ==
    [][ \A s \in Sessions :
            (sess[s].hPc = "idle" /\ sess[s].error = "error") =>
                sess'[s].hPc = "idle" ]_vars

\* C11 amended: no answer of a backend call starts another call of its own
\* accord; a just-in-time query is issued only by a click on the enabled
\* submit button, which after an Error is enabled again in the same session.
C11_NoAutomaticRetry ==
    [][ \A s \in Sessions :
            /\ sess[s].hPc = "submit" => sess'[s].hPc \in {"submit", "idle"}
            /\ sess[s].hPc = "jit" => sess'[s].hPc \in {"jit", "submit", "idle"}
            /\ (sess[s].hPc = "idle" /\ sess'[s].hPc # "idle") =>
                   /\ sess'[s].hPc = "jit"
                   /\ ConfirmationScreen(sess[s])
                   /\ ~sess[s].isLoading
                   /\ sess'[s].flows = sess[s].flows + 1 ]_vars

\* a second attempt of one session, after its first ended in Error
C11_Witness ==
    \E s \in Sessions :
        /\ sess[s].flows = 2
        /\ sess[s].hPc = "jit"
        /\ ~sess[s].voteSuccessful

\* C17: a submit flow runs only on the confirmation screen of a session
\* whose page-entry query found no vote and whose election was open at the
\* window guard; the selected candidate is a candidate of the post and is
\* the candidate of the row the session inserts; with no candidate selected
\* no flow starts.
C17_SubmitOnlyFromConfirming ==
    /\ \A s \in Sessions :
          /\ sess[s].hPc # "idle" =>
                /\ ConfirmationScreen(sess[s])
                /\ sess[s].isLoading
                /\ {"findVote:none", "getPost:ok", "getCandidates:ok"}
                       \subseteq sess[s].trace
                /\ ~sess[s].closedAtEntry
                /\ sess[s].selectedCandidateId \in GetCandidates(sess[s].post)
          /\ sess[s].selectedCandidateId = None =>
                sess[s].hPc = "idle" /\ sess[s].flows = 0
          /\ (sess[s].submitResult = "ok" /\ sess[s].voteSuccessful) =>
                \E v \in votes :
                    /\ v.user_id = sess[s].user
                    /\ v.post_id = sess[s].post
                    /\ v.candidate_id = sess[s].selectedCandidateId
    /\ \A v \in votes : v.candidate_id \in GetCandidates(v.post_id)

C17_Witness ==
    \E s \in Sessions :
        /\ sess[s].hPc = "submit"
        /\ sess[s].selectedCandidateId = "c2"

\* C18: no submitVote call is issued at a time later than the end_time of
\* the election of the post.
C18_NoSubmitAfterEnd ==
    [][ \A s \in Sessions :
            (sess'[s].hPc = "submit" /\ sess[s].hPc # "submit") =>
                now <= EndTimeOf(sess[s].post) ]_vars

\* C19: a failed just-in-time query counts as "no vote found" and the flow
\* goes on to submitVote; only a returned row ends the flow without a
\* submitVote call; a duplicate that a failed query missed is rejected by
\* the data store.
C19_FailedJitStillSubmits ==
    \A s \in Sessions :
        /\ sess[s].jitResult = "error" =>
               sess[s].hPc = "submit" \/ sess[s].submitResult # "none"
        /\ sess[s].jitResult = "row" =>
               sess[s].hPc = "idle" /\ sess[s].submitResult = "none"
        /\ ( /\ sess[s].jitResult = "error"
             /\ sess[s].jitDbHadVote
             /\ sess[s].submitResult \notin {"none", "failed"} ) =>
               sess[s].submitResult = "23505" /\ sess[s].voteSuccessful

C19_Witness ==
    \E s \in Sessions :
        /\ sess[s].jitResult = "error"
        /\ sess[s].jitDbHadVote
        /\ sess[s].submitResult = "23505"

\* C20: a session whose submitVote call returned successfully ends in the
\* success state.
C20_SubmitOkIsSuccess ==
    \A s \in Sessions :
        (sess[s].submitResult = "ok" /\ sess[s].hPc = "idle") =>
            sess[s].voteSuccessful /\ sess[s].error = ""

\* C15: the step a session takes when its submitVote call returns does not
\* depend on the stored cache item: absent, stale or malformed items give
\* the same session state.
C15_CacheIsNotACorrectnessSource ==
    \A s \in Sessions :
        sess[s].hPc = "submit" =>
            \A i \in InitialCacheItems :
                AfterSubmitOk(sess[s], i) = AfterSubmitOk(sess[s], localStorage)

\* the ids of the posts of an election
ElectionPostIds(e) == { r.id : r \in { x \in PostsTable : x.elections = e } }

\* C12: when the reads succeed every post of the active election is listed,
\* the post without candidates included; when no election is active the
\* posts, candidates and votes reads are not issued, the list is empty and
\* the "No Active Elections" card is shown.
C12_PostsListedWithoutCandidates ==
    /\ ( /\ plist.pc = "settled"
         /\ ~plist.readFailed
         /\ activeElections # {} ) =>
           /\ { q.id : q \in plist.posts } = ElectionPostIds("e1")
           /\ \E q \in plist.posts : q.candidates = {}
    /\ activeElections = {} =>
           /\ plist.pc # "parallel"
           /\ plist.posts = {}
           /\ (plist.pc = "settled" => PostsListView(plist) = "No Active Elections")

C12_Witness ==
    /\ plist.pc = "settled"
    /\ ~plist.readFailed
    /\ \E q \in plist.posts : q.id = "p5" /\ q.candidates = {}

\* C13: when the reads succeed the listed posts are the posts of the active
\* election, each with the candidates of that post, and user_voted is true
\* exactly for the posts the user has a vote for; the link of a post is the
\* vote link exactly when user_voted is false.
C13_ListJoin ==
    ( /\ plist.pc = "settled"
      /\ ~plist.readFailed
      /\ activeElections # {} ) =>
        /\ { q.id : q \in plist.posts } = ElectionPostIds("e1")
        /\ \A q \in plist.posts :
              /\ q.candidates =
                    { c.id : c \in { x \in CandidatesTable : x.post_id = q.id } }
              /\ q.user_voted <=>
                    \E v \in votes : /\ v.user_id = plist.userId
                                     /\ v.post_id = q.id
              /\ PostLink(q) = "/vote" <=> ~q.user_voted
              /\ PostLink(q) = "/results" <=> q.user_voted

C13_Witness ==
    /\ plist.pc = "settled"
    /\ ~plist.readFailed
    /\ \E q \in plist.posts : q.user_voted /\ PostLink(q) = "/results"
    /\ \E q \in plist.posts : ~q.user_voted /\ PostLink(q) = "/vote"

RECURSIVE SumVoteCounts(_)
SumVoteCounts(cs) ==
    IF cs = {} THEN 0
    ELSE LET c == CHOOSE x \in cs : TRUE
         IN  c.vote_count + SumVoteCounts(cs \ {c})

\* C14: the results of a post hold every candidate of the post with its
\* vote count; total_votes is the sum of the counts; a percentage (in
\* hundredths) is count * 100 / total_votes, and 0 when total_votes is 0;
\* three votes for c1 and one for c2 give 4, 75.00 and 25.00.
C14_ResultsPercentages ==
    (rview.pc = "done" /\ ~rview.readFailed) =>
        LET r == rview.results
        IN  /\ { c.id : c \in r.candidates } = GetCandidates(rview.postId)
            /\ r.total_votes = SumVoteCounts(r.candidates)
            /\ r.total_votes =
                  Cardinality({ v \in votes : v.post_id = rview.postId })
            /\ \A c \in r.candidates :
                  /\ c.vote_count =
                        Cardinality({ v \in votes :
                                        /\ v.post_id = rview.postId
                                        /\ v.candidate_id = c.id })
                  /\ r.total_votes = 0 => c.percentage = 0
                  /\ r.total_votes > 0 =>
                        /\ c.percentage * r.total_votes <= c.vote_count * 10000
                        /\ c.vote_count * 10000
                              < (c.percentage + 1) * r.total_votes
            /\ (Cardinality(votes) = 4 /\ rview.postId = "p1") =>
                  /\ r.total_votes = 4
                  /\ \E c \in r.candidates :
                        c.id = "c1" /\ c.vote_count = 3 /\ c.percentage = 7500
                  /\ \E c \in r.candidates :
                        c.id = "c2" /\ c.vote_count = 1 /\ c.percentage = 2500

C14_Witness ==
    /\ rview.pc = "done"
    /\ ~rview.readFailed
    /\ rview.postId = "p1"
    /\ rview.results.total_votes = 4

\* the results of a post without votes
C14_WitnessZero ==
    /\ rview.pc = "done"
    /\ ~rview.readFailed
    /\ rview.postId = "p1"
    /\ rview.results.total_votes = 0
    /\ Cardinality(rview.results.candidates) = 2

\* C16: when the identity provider returns no user, the vote page and the
\* dashboard navigate to "/", issue no data-store call and render neither
\* the voting interface nor the posts list.
C16_UnauthenticatedRedirect ==
    /\ \A s \in Sessions :
          (sess[s].pagePc # "unmounted" /\ sess[s].user = None) =>
              /\ sess[s].nav = "/"
              /\ sess[s].pagePc = "done"
              /\ sess[s].trace = {}
              /\ ~InterfaceRendered(sess[s])
    /\ (dash.pc # "unmounted" /\ dash.user = NoUser /\ dash.nav # "/admin") =>
          /\ dash.nav = "/"
          /\ dash.pc = "done"
          /\ dash.election = None
          /\ ~dash.readFailed
          /\ ~DashboardRendered(dash)
          /\ plist.pc = "unmounted"

C16_Witness ==
    /\ \E s \in Sessions : sess[s].nav = "/" /\ sess[s].user = None
    /\ dash.nav = "/"
    /\ dash.user = NoUser

\* C21: with a fixed user and unchanging backend data (no read failed), a
\* run of the posts listing's fetch effect that was started by a re-render
\* ends without causing another re-render, so the listing issues finitely
\* many reads and becomes quiescent.
C21_FetchEffectQuiesces ==
    (plist.pc = "settled" /\ plist.fetches >= 2 /\ ~plist.readFailed) =>
        ~plist.rerender

\* C22: within one voting session at most one submit flow is in progress:
\* from the start of a submit attempt until it resolves the submit and
\* go-back controls are disabled (isLoading), so no second attempt starts
\* and the confirmation is not left while the first is unresolved.
C22_OneSubmitFlowAtATime ==
    [][ \A s \in Sessions :
            sess[s].hPc # "idle" =>
                /\ sess[s].isLoading
                /\ ConfirmationScreen(sess[s])
                /\ sess'[s].flows = sess[s].flows
                /\ sess'[s].showConfirmation = sess[s].showConfirmation
                /\ sess'[s].selectedCandidateId = sess[s].selectedCandidateId
      ]_vars

C22_Witness ==
    \E s \in Sessions :
        /\ sess[s].hPc = "submit"
        /\ sess[s].isLoading
        /\ sess[s].flows >= 2
        /\ sess[s].error = ""

\* C23: the local vote cache changes only in the step in which a session's
\* own submitVote returned successfully, and then the entry of the voted
\* post is the submitted candidate and the entries of the other posts are
\* as before; a flow that ends on the just-in-time duplicate path, on the
\* uniqueness violation or on another error leaves the cache unchanged.
C23_CacheFrame ==
    [][ /\ localStorage' # localStorage =>
              \E s \in Sessions :
                  /\ sess[s].hPc = "submit"
                  /\ sess'[s].hPc = "idle"
                  /\ sess'[s].submitResult = "ok"
                  /\ \E v \in votes' \ votes :
                         /\ v.post_id = sess[s].post
                         /\ v.candidate_id = sess[s].selectedCandidateId
                         /\ v.user_id = sess[s].user
                  /\ localStorage'.kind = "object"
                  /\ localStorage'.obj[sess[s].post] =
                         sess[s].selectedCandidateId
                  /\ \A q \in VotePosts \ {sess[s].post} :
                         localStorage'.obj[q] = CacheParse(localStorage)[q]
        /\ \A s \in Sessions :
              ( /\ sess[s].hPc # "idle"
                /\ sess'[s].hPc = "idle"
                /\ sess'[s].submitResult # "ok" ) =>
                  localStorage' = localStorage
      ]_vars

C23_Witness ==
    /\ localStorage.kind = "object"
    /\ localStorage.obj["p1"] # None
    /\ localStorage.obj["p2"] = "c3"
    /\ \A s \in Sessions : sess[s].post # "p2"
    /\ \E s \in Sessions :
           /\ sess[s].post = "p1"
           /\ sess[s].submitResult = "ok"
           /\ sess[s].voteSuccessful

\* C24: on the dashboard a current user whose role is admin is navigated
\* to the admin page; in a session that was navigated there no election
\* read is issued or answered, the dashboard keeps its skeleton and the
\* voter posts list is never rendered.
C24_AdminRedirect ==
    /\ dash.pc = "unmounted" =>
          \A cu \in DashUsers :
              cu.role = "admin" =>
                  /\ InitializeDashboard(dash, cu).nav = "/admin"
                  /\ InitializeDashboard(dash, cu).pc = "done"
    /\ dash.nav = "/admin" =>
          /\ dash.pc = "done"
          /\ dash.user = NoUser
          /\ dash.election = None
          /\ ~dash.readFailed
          /\ dash.loading
          /\ ~DashboardRendered(dash)
          /\ plist = UnmountedPostsList

C24_Witness ==
    /\ dash.nav = "/admin"
    /\ dash.pc = "done"
    /\ DashboardView(dash) = "skeleton"
    /\ plist.pc = "unmounted"

====
